---- MODULE Spec2Model ----
(***************************************************************************)
(* Model of the HLS manifest-rewriting proxy (src/src/index.ts, and the    *)
(* storage-abstraction revision of the same worker in unnamed/part_007     *)
(* with its CloudflareKV adapter in unnamed/part_006).                     *)
(*                                                                         *)
(* Strings that the code splits on "/" are modelled as non-empty sequences *)
(* of segments, a segment being a sequence of atoms (opaque chunks of      *)
(* characters): "" is << <<>> >>, "/vb/a.m3u8" is                          *)
(* << <<>>, <<"vb">>, <<"a", ".m3u8">> >>.  Times are in seconds.          *)
(***************************************************************************)
EXTENDS Integers, Sequences, FiniteSets, TLC

VARIABLES
    variant,     \* which revision of the worker runs: "worker" or "generic"
    clients,     \* s3ProxyClients: the backend registry (sequence of S3Config)
    now,         \* Date.now() in seconds
    store,       \* the KV namespace s3proxy_cache: cache key -> entry
    manifestSrc, \* the manifest object held by the backends (sequence of lines)
    posterSrc,   \* the poster object held by the backends (bytes)
    req,         \* the requests: input, position in the handler, locals, response
    last,        \* the poster request answered just before the one being handled,
                 \* if there is one
    prep         \* the run of prepare-env: its environment, exit code, file written

vars == <<variant, clients, now, store, manifestSrc, posterSrc, req, last, prep>>

----------------------------------------------------------------------------
(* Bounds of the model *)

MaxTicks == 2        \* number of clock steps in one behaviour
PageSize == 1        \* keys per page returned by the store's list operation

(* Program constants *)

POSTER_CACHE_TTL == 2592000
EXPIRATION_DEFAULT == 3600
EXPIRATION_MARGIN == 100
SIGN_DEFAULT == 3600
DAY == 86400

Tick == (3 * EXPIRATION_MARGIN) \div 5     \* granularity of the clock
StartTime == DAY - Tick              \* the clock starts just before a day change

\* the request slot of a server that handles one request at a time
Requests == {1}

----------------------------------------------------------------------------
(* Strings *)

EmptyStr == << <<>> >>

\* Array.prototype.join("/") of a list of segments
Join(segs) == IF segs = <<>> THEN EmptyStr ELSE segs

\* String.prototype.substring(1) of a string that is empty or starts with "/"
Substring1(s) == IF Len(s) = 1 THEN EmptyStr ELSE Tail(s)

\* String.prototype.includes("/")
IncludesSlash(s) == Len(s) > 1

\* String.prototype.endsWith(suffix), suffix being one atom
EndsWith(s, suffix) ==
    LET final == s[Len(s)]
    IN  final # <<>> /\ final[Len(final)] = suffix

\* slice(0, -1) of an array
DropLast(a) == IF a = <<>> THEN <<>> ELSE SubSeq(a, 1, Len(a) - 1)

----------------------------------------------------------------------------
(* Numbers: a JavaScript number is an integer or NaN *)

NaN == [nan |-> TRUE, v |-> 0]
Num(n) == [nan |-> FALSE, v |-> n]

Digits == {"0", "1", "2", "3", "4", "5", "6", "7", "8", "9"}
DigitVal(c) ==
    CASE c = "0" -> 0 [] c = "1" -> 1 [] c = "2" -> 2 [] c = "3" -> 3
      [] c = "4" -> 4 [] c = "5" -> 5 [] c = "6" -> 6 [] c = "7" -> 7
      [] c = "8" -> 8 [] c = "9" -> 9

RECURSIVE DigitPrefix(_, _)
\* value of the longest prefix of digits of cs, acc being the value so far
DigitPrefix(cs, acc) ==
    IF cs = <<>> \/ Head(cs) \notin Digits THEN acc
    ELSE DigitPrefix(Tail(cs), 10 * acc + DigitVal(Head(cs)))

\* parseInt(s) of a string given as a sequence of characters
ParseInt(cs) ==
    IF cs = <<>> \/ Head(cs) \notin Digits THEN NaN
    ELSE Num(DigitPrefix(cs, 0))

\* truthiness of a number and of a string
TruthyNum(n) == ~n.nan /\ n.v # 0
TruthyStr(cs) == cs # <<>>

Minus(n, k) == IF n.nan THEN NaN ELSE Num(n.v - k)

----------------------------------------------------------------------------
(* Hashes: ideal (collision-free) functions of their arguments *)

HmacSHA256(msg, secret) == [hmac |-> msg, secret |-> secret]
MD5(bytes) == [md5 |-> bytes]

NoCode == [none |-> "code"]      \* a query parameter that is absent (null)
NoEtag == [none |-> "etag"]      \* a header that is absent (null)

----------------------------------------------------------------------------
(* The backend registry (s3-config.json) *)

Https(host) == << <<"https:">>, <<>>, <<host>> >>

CfgA ==
    [endpoint |-> Https("e1"), secretAccessKey |-> "s1",
     expiration |-> <<"2", "0", "0">>, videoBucket |-> <<"vb">>]
CfgB ==
    [endpoint |-> Https("e2"), secretAccessKey |-> "s2",
     expiration |-> <<>>, videoBucket |-> <<"vb">>]

Registries == {<<CfgA>>, <<CfgA, CfgB>>}

\* a backend reached under a path of the host of CfgA
CfgC ==
    [endpoint |-> Https("e1") \o << <<"vb">> >>, secretAccessKey |-> "s3",
     expiration |-> <<>>, videoBucket |-> <<"vb">>]

KeyRegistries == {<<CfgA, CfgB>>, <<CfgA, CfgC>>}

\* the values S3_EXPIRATION may hold for one backend: not declared, an hour,
\* CfgA's, one below the margin, zero, and one that is no number
Expirations ==
    {<<>>, <<"3", "6", "0", "0">>, <<"2", "0", "0">>, <<"5", "0">>, <<"0">>, <<"x">>}

ExpiryRegistries == {<<[CfgA EXCEPT !.expiration = e]>> : e \in Expirations}

Secrets == {"s1", "s2"}

\* getRandomRobin(max): the indexes Math.floor(Math.random() * max) can take
getRandomRobin(max) == IF max <= 0 THEN {0} ELSE 0..(max - 1)

----------------------------------------------------------------------------
(* Expiration *)

\* the expiresIn passed to getSignedUrl by getSignedUrlForObject
SignExpiration(conf) ==
    IF TruthyNum(ParseInt(conf.expiration))
    THEN ParseInt(conf.expiration).v
    ELSE SIGN_DEFAULT

\* the margin is left out of the time to live
calculateExpirationTtl_nomargin(expiration) ==
    IF TruthyStr(expiration) THEN ParseInt(expiration) ELSE Num(EXPIRATION_DEFAULT)

\* the declared expiration is ignored
calculateExpirationTtl_default(expiration) == Num(EXPIRATION_DEFAULT - EXPIRATION_MARGIN)

calculateExpirationTtl(expiration) ==
    IF TruthyStr(expiration)
    THEN Minus(ParseInt(expiration), EXPIRATION_MARGIN)
    ELSE Num(EXPIRATION_DEFAULT - EXPIRATION_MARGIN)

\* Date.now() + expirationTtl (seconds)
Plus(t, n) == IF n.nan THEN NaN ELSE Num(t + n.v)

----------------------------------------------------------------------------
(* Proof codes *)

daysSinceEpoch(t) == t \div DAY

RECURSIVE CodeLoop(_, _, _, _)
\* the for loop of isClearCodeValid from client i on
\* the loop returns after the first secret
CodeLoop_first(cls, i, clearCode, day) ==
    i <= Len(cls) /\ clearCode = HmacSHA256(day, cls[i].secretAccessKey)

CodeLoop(cls, i, clearCode, day) ==
    IF i > Len(cls) THEN FALSE
    ELSE IF clearCode = HmacSHA256(day, cls[i].secretAccessKey) THEN TRUE
    ELSE CodeLoop(cls, i + 1, clearCode, day)

\* the code of the day before is accepted too
isClearCodeValid_anyday(cls, clearCode, t) ==
    \E d \in {daysSinceEpoch(t) - 1, daysSinceEpoch(t)} : CodeLoop(cls, 1, clearCode, d)

isClearCodeValid(cls, clearCode, t) == CodeLoop(cls, 1, clearCode, daysSinceEpoch(t))

----------------------------------------------------------------------------
(* Paths, buckets and keys *)

removeLeadingSlash(path) == Substring1(path)

extractBucketAndKey(requestedFile, defaultBucket) ==
    IF IncludesSlash(requestedFile)
    THEN [bucket |-> requestedFile[1], key |-> Tail(requestedFile)]
    ELSE [bucket |-> defaultBucket, key |-> requestedFile]

\* validateKey does not throw
validKey(key) == key # EmptyStr /\ EndsWith(key, ".m3u8")

\* the endpoint is left out of the key
getCacheKey_noendpoint(conf, bucket, key) == <<bucket>> \o key

getCacheKey(conf, bucket, key) == conf.endpoint \o <<bucket>> \o key

getBasePath(pathname) == Substring1(Join(DropLast(pathname)))

\* the prefix of the sibling objects computed by replaceFilesInM3U8 (line 146)
pathInBucket(basePath) == Join(Tail(basePath))

\* `${pathInBucket}${match[0]}` , pathInBucket ending with "/"
SegmentKey(basePath, name) == pathInBucket(basePath) \o <<name>>

----------------------------------------------------------------------------
(* Manifests: a sequence of lines, a line being a sequence of tokens.      *)
(*   [t |-> "txt", s]        text that matches no pattern                  *)
(*   [t |-> "seg", name]     a maximal match of SEGMENTS_REGEX             *)
(*   [t |-> "m3u8", name]    a file name ending in .m3u8                   *)
(*   [t |-> "abs", scheme]   the scheme and authority of an absolute URL   *)
(*   [t |-> "signed", ...]   a signed URL                                  *)
(*   [t |-> "proxy", ...]    `${host}/${path}/` put by replaceM3u8Urls     *)
(*   [t |-> "expires", date] the comment of addExpirationDateCommentInM3u8 *)

Txt(s) == [t |-> "txt", s |-> s]
Seg(stem, ext) == [t |-> "seg", name |-> <<stem, ext>>]
Nested(stem) == [t |-> "m3u8", name |-> <<stem, ".m3u8">>]
Abs(scheme) == [t |-> "abs", scheme |-> scheme]

\* the URL returned by getSignedUrl: it names the object and is valid for
\* `lifetime` seconds from the time of signing
SignedUrl(cl, bucket, key, at, lifetime) ==
    [t |-> "signed", cl |-> cl, bucket |-> bucket, key |-> key,
     at |-> at, lifetime |-> lifetime]

EmptyM3u8 == << <<>> >>      \* the empty string split on "\n"

\* the indexes of the tokens of kind t in a line
Positions(line, t) == {i \in 1..Len(line) : line[i].t = t}

IsSeg(tok) == tok.t = "seg"
IsNested(tok) == tok.t = "m3u8"

\* line.match(SEGMENTS_REGEX): the matches, in order; <<>> stands for null
RECURSIVE MatchSegments(_)
MatchSegments(line) ==
    IF line = <<>> THEN <<>>
    ELSE (IF IsSeg(Head(line)) THEN <<Head(line).name>> ELSE <<>>)
         \o MatchSegments(Tail(line))

\* line.replace(SEGMENTS_REGEX, url): the regex is global
ReplaceSegments(line, url) ==
    [i \in 1..Len(line) |-> IF IsSeg(line[i]) THEN url ELSE line[i]]

\* the promises pushed by lines.forEach of replaceFilesInM3U8
RECURSIVE CollectPromises(_, _, _)
CollectPromises(lines, index, basePath) ==
    IF index > Len(lines) THEN <<>>
    ELSE LET match == MatchSegments(lines[index])
         IN  (IF match # <<>>
              THEN <<[line |-> index, key |-> SegmentKey(basePath, match[1]),
                      state |-> "pending", url |-> Txt("")]>>
              ELSE <<>>)
             \o CollectPromises(lines, index + 1, basePath)

\* urls.forEach of replaceFilesInM3U8, from promise `index` on
RECURSIVE ApplyUrls(_, _, _)
ApplyUrls(lines, promises, index) ==
    IF index > Len(promises) THEN lines
    ELSE LET p == promises[index]
         IN  ApplyUrls([lines EXCEPT ![p.line] = ReplaceSegments(lines[p.line], p.url)],
                       promises, index + 1)

\* URL_REGEX.test(match) for the tokens a match of M3U8_REGEX covers
IsHttps(tok, cls) ==
    \/ tok.t = "abs" /\ tok.scheme = "https"
    \/ tok.t = "signed" /\ cls[tok.cl].endpoint[1] = <<"https:">>
    \/ tok.t = "proxy" /\ tok.origin[1] = <<"https:">>
HasHttpColon(tok) == tok.t = "abs" /\ tok.scheme = "http"
UrlTest(match, cls) ==
    \/ IsHttps(match[1], cls)
    \/ \E i \in 1..Len(match) : HasHttpColon(match[i])

\* the rewriting of one line by m3u8.replace(M3U8_REGEX, ...): the match
\* runs from the start of the line to the last .m3u8 file name of the line
ReplaceM3u8Line(line, origin, path, cls) ==
    LET ends == Positions(line, "m3u8")
    IN  IF ends = {} THEN line
        ELSE LET end == CHOOSE i \in ends : \A j \in ends : j <= i
                 match == SubSeq(line, 1, end)
             IN  IF UrlTest(match, cls) THEN line
                 ELSE <<[t |-> "proxy", origin |-> origin, path |-> path]>> \o line

replaceM3u8Urls(origin, pathname, m3u8, cls) ==
    [i \in 1..Len(m3u8) |-> ReplaceM3u8Line(m3u8[i], origin, getBasePath(pathname), cls)]

\* lines.splice(1, 0, comment)
\* the comment is put before the first line
addExpirationDateCommentInM3u8_front(m3u8, expirationDate) ==
    << <<[t |-> "expires", date |-> expirationDate]>> >> \o m3u8

addExpirationDateCommentInM3u8(m3u8, expirationDate) ==
    <<m3u8[1]>> \o << <<[t |-> "expires", date |-> expirationDate]>> >> \o Tail(m3u8)

----------------------------------------------------------------------------
(* The cache store: a KV namespace whose entries expire TTL seconds after  *)
(* they were stored.                                                       *)

NoMeta == [none |-> "metadata"]
NoValue == [found |-> FALSE]         \* the null a read returns for a missing key
Found(value) == [found |-> TRUE, value |-> value]

Live(st, t, k) == k \in DOMAIN st /\ t < st[k].storedAt + st[k].ttl
LiveKeys(st, t) == {k \in DOMAIN st : Live(st, t, k)}

\* kv.get(key)
KvGet(st, t, k) == IF Live(st, t, k) THEN Found(st[k].value) ELSE NoValue

\* the metadata of the entry are not returned
KvGetWithMetadata_nometa(st, t, k) ==
    [value |-> KvGet(st, t, k), metadata |-> NoMeta]

\* kv.getWithMetadata(key)
KvGetWithMetadata(st, t, k) ==
    IF Live(st, t, k)
    THEN [value |-> Found(st[k].value), metadata |-> st[k].metadata]
    ELSE [value |-> NoValue, metadata |-> NoMeta]

\* kv.put refuses an expirationTtl that is not a positive number
KvPutAccepts(ttl) == ~ttl.nan /\ ttl.v > 0

\* the entry a put makes
Entry(t, value, metadata, ttl) ==
    [value |-> value, metadata |-> metadata, storedAt |-> t, ttl |-> ttl.v]

\* the metadata of an entry that is overwritten are kept
KvPut_keepMetadata(st, t, k, value, metadata, ttl) ==
    (k :> Entry(t, value, IF k \in DOMAIN st THEN st[k].metadata ELSE metadata, ttl)) @@ st

\* kv.put(key, value, {metadata, expirationTtl}) at time t
KvPut(st, t, k, value, metadata, ttl) == (k :> Entry(t, value, metadata, ttl)) @@ st

\* kv.delete(key)
KvDelete(st, k) == [j \in (DOMAIN st) \ {k} |-> st[j]]

Min(a, b) == IF a < b THEN a ELSE b

\* the cursor is not looked at: every call lists from the start
KvList_restart(st, t, cursor) ==
    LET rest == LiveKeys(st, t)
        n == Min(PageSize, Cardinality(rest))
    IN  {[keys |-> page,
          cursor |-> IF page = rest THEN {} ELSE page] :
            page \in {p \in SUBSET rest : Cardinality(p) = n}}

\* kv.list({cursor}): the pages the store may return after the keys `cursor`
\* were listed; an empty cursor in the answer means the list is complete
KvList(st, t, cursor) ==
    LET rest == LiveKeys(st, t) \ cursor
        n == Min(PageSize, Cardinality(rest))
    IN  {[keys |-> page,
          cursor |-> IF page = rest THEN {} ELSE cursor \cup page] :
            page \in {p \in SUBSET rest : Cardinality(p) = n}}

----------------------------------------------------------------------------
(* Requests and responses *)

NoResp == [none |-> "response"]
NoInput == [none |-> "request"]

Null == [kind |-> "null"]
Text(s) == [kind |-> "text", text |-> s]
Bytes(b) == [kind |-> "bytes", bytes |-> b]
M3u8Body(lines) == [kind |-> "m3u8", lines |-> lines]

Response(status, body, headers) ==
    [status |-> status, body |-> body, headers |-> headers, threw |-> FALSE]

\* an exception that leaves the fetch handler: no response is built
Uncaught == [status |-> 0, body |-> Null, headers |-> [threw |-> TRUE], threw |-> TRUE]

NoHeaders == [none |-> "headers"]

Cors(maxAge) ==
    [acAllowOrigin |-> "*", acAllowMethods |-> "GET, OPTIONS",
     acAllowHeaders |-> "Content-Type, Origin, Accept", acMaxAge |-> maxAge]

HSL_MIME_TYPE == "application/x-mpegURL"

ManifestHeaders(maxAge, expirationDate) ==
    [contentType |-> HSL_MIME_TYPE, cors |-> Cors(86400),
     cacheControl |-> [public |-> TRUE, maxAge |-> maxAge, immutable |-> FALSE],
     expires |-> expirationDate]

PosterHeaders(etag) ==
    [contentType |-> "image/jpeg", cors |-> Cors(POSTER_CACHE_TTL),
     cacheControl |-> [public |-> TRUE, maxAge |-> Num(POSTER_CACHE_TTL), immutable |-> TRUE],
     etag |-> etag]

NotModifiedHeaders(etag) == [etag |-> etag, cors |-> Cors(POSTER_CACHE_TTL)]

\* Math.floor((expirationDate.getTime() - Date.now()) / 1000)
MaxAge(expirationDate, t) == Minus(expirationDate, t)

InitReq ==
    [pc |-> "new", input |-> NoInput, handler |-> "none", cl |-> 0,
     bucket |-> <<>>, key |-> EmptyStr, cacheKey |-> EmptyStr,
     ttl |-> NaN, expDate |-> NaN, metaExp |-> NaN,
     m3u8 |-> EmptyM3u8, promises |-> <<>>,
     keys |-> {}, cursor |-> {}, bytes |-> "", etag |-> NoEtag,
     resp |-> NoResp,
     \* history of the request, kept for the properties
     at |-> 0, seen |-> NoValue, seenPath |-> {}, proof |-> FALSE, signCalls |-> 0, fetches |-> 0,
     fetched |-> "none", reads |-> 0,
     deletes |-> 0, puts |-> 0, hit |-> FALSE, signFailed |-> FALSE,
     signedOk |-> 0, wrote |-> NoValue]

----------------------------------------------------------------------------
(* What the clients send *)

ManifestPath == << <<>>, <<"vb">>, <<"vid">>, <<"index", ".m3u8">> >>
PosterPath == << <<>>, <<"vb">>, <<"vid">>, <<"x", "_poster.jpg">> >>
FlushPath == << <<>>, <<"flush-cache">> >>
StaticPaths ==
    {<< <<>>, <<>> >>, << <<>>, <<"health">> >>, << <<>>, <<"robots.txt">> >>,
     << <<>>, <<"favicon.ico">> >>, << <<>>, <<"vb">>, <<"x", "_poster.txt">> >>}

Origins == {Https("proxy")}

EmptyCode == [empty |-> "code"]      \* a query parameter present with no value

\* the codes a client may present at time t: none, today's code for each
\* secret, and yesterday's code
Codes(t) ==
    {NoCode}
    \cup {HmacSHA256(daysSinceEpoch(t), s) : s \in Secrets}
    \cup {HmacSHA256(daysSinceEpoch(t) - 1, "s1")}

PosterContents == {"jpgA", "jpgB"}

Get(path, origin, clearCache, key, ifNoneMatch) ==
    [method |-> "GET", path |-> path, origin |-> origin, clearCache |-> clearCache,
     key |-> key, ifNoneMatch |-> ifNoneMatch]

ManifestInputs(t) ==
    {Get(ManifestPath, o, c, NoCode, NoEtag) : o \in Origins, c \in Codes(t)}
PosterInputs ==
    {Get(PosterPath, o, NoCode, NoCode, e) :
        o \in Origins, e \in {NoEtag} \cup {MD5(b) : b \in PosterContents}}
FlushInputs(t) ==
    {Get(FlushPath, o, NoCode, c, NoEtag) : o \in Origins, c \in Codes(t)}
StaticInputs ==
    {Get(p, o, NoCode, NoCode, NoEtag) : p \in StaticPaths, o \in Origins}
    \cup {[Get(ManifestPath, o, NoCode, NoCode, NoEtag) EXCEPT !.method = m] :
            m \in {"OPTIONS", "POST"}, o \in Origins}

Methods == {"GET", "OPTIONS", "POST", "DELETE"}

\* manifests directly under the bucket, under no bucket, and under an empty
\* first segment (//index.m3u8)
AnyManifestPaths ==
    {ManifestPath,
     << <<>>, <<"vb">>, <<"index", ".m3u8">> >>,
     << <<>>, <<"index", ".m3u8">> >>,
     << <<>>, <<>>, <<"index", ".m3u8">> >>}
\* the proxy is reached under two host names
HostOrigins == {Https("proxy"), Https("mirror")}
HostInputs(t) ==
    {Get(ManifestPath, o, c, NoCode, NoEtag) :
        o \in HostOrigins, c \in {NoCode, HmacSHA256(daysSinceEpoch(t), "s2")}}

\* the request two clients send at once
RaceInputs == {Get(ManifestPath, o, NoCode, NoCode, NoEtag) : o \in Origins}

AnyManifestInputs(t) ==
    {[Get(p, o, c, NoCode, NoEtag) EXCEPT !.method = m] :
        p \in AnyManifestPaths, o \in Origins, c \in Codes(t), m \in Methods}

\* posters, also under an empty first segment (//x_poster.jpg)
AnyPosterInputs ==
    {[i EXCEPT !.method = m] :
        i \in PosterInputs
               \cup {Get(<< <<>>, <<>>, <<"x", "_poster.jpg">> >>, o, NoCode, NoCode, NoEtag) :
                        o \in Origins},
        m \in Methods}

\* the segments of the video, beside its manifest
SegmentPaths ==
    {<< <<>>, <<"vb">>, <<"vid">>, <<"init", ".mp4">> >>,
     << <<>>, <<"vb">>, <<"vid">>, <<"s0", ".m4s">> >>}

\* requests of every method, for the paths fetch() names and for others
AnyStaticInputs ==
    {[Get(p, o, NoCode, NoCode, NoEtag) EXCEPT !.method = m] :
        p \in StaticPaths \cup SegmentPaths \cup {ManifestPath, PosterPath, FlushPath},
        o \in Origins, m \in Methods}

\* posters at two depths, the second under a directory named as the bucket
DeepPosterPath == << <<>>, <<"vb">>, <<"vb">>, <<"vid">>, <<"x", "_poster.jpg">> >>
KeyPosterInputs ==
    {Get(p, o, NoCode, NoCode, e) :
        p \in {PosterPath, DeepPosterPath}, o \in Origins, e \in {NoEtag, MD5("jpgA")}}

\* if (clearCache): the parameter is present and not empty
TruthyCode(c) == c # NoCode /\ c # EmptyCode

\* the method is not looked at
Route_anyMethod(input) ==
    IF EndsWith(input.path, ".m3u8") THEN "m3u8"
    ELSE IF EndsWith(input.path, "_poster.jpg") THEN "poster"
    ELSE IF input.path = FlushPath THEN "flush"
    ELSE "static"

\* the handler fetch() gives a request to
Route(input) ==
    IF input.method = "GET"
    THEN IF EndsWith(input.path, ".m3u8") THEN "m3u8"
         ELSE IF EndsWith(input.path, "_poster.jpg") THEN "poster"
         ELSE IF input.path = FlushPath THEN "flush"
         ELSE "static"
    ELSE "static"

----------------------------------------------------------------------------
(* The manifests the backends may hold *)

Header == <<Txt("#EXTM3U")>>
Manifests ==
    {<<Header, <<Seg("init", ".mp4")>>, <<Seg("s0", ".m4s")>>, <<Nested("audio")>> >>,
     <<Header, <<Nested("audio")>>, <<Txt("#EXT-X-MAP:"), Seg("init", ".mp4"), Seg("s0", ".m4s")>> >>,
     <<Header, <<Txt("#EXT-X-ENDLIST")>> >>,
     EmptyM3u8}

\* a manifest with a nested manifest beside it and one at an absolute URL
HostManifest ==
    <<Header, <<Seg("s0", ".m4s")>>, <<Nested("audio")>>, <<Abs("https"), Nested("video")>> >>

----------------------------------------------------------------------------
(* The requests *)

NoLast == [InitReq EXCEPT !.pc = "none"]

\* a request arrives when the one before it is answered, and takes its place
MayArrive(r) == req[r].pc \in {"new", "done"}

\* the request remembered when a new one arrives: the one just answered, if
\* it asked for a poster
Remember(r) ==
    IF req[r].pc = "done" /\ Route(req[r].input) = "poster"
    THEN [req[r] EXCEPT !.seen = NoValue, !.seenPath = {}]
    ELSE IF req[r].pc = "done" THEN NoLast
    ELSE last

\* the request is answered: its locals are dropped, its history is kept
Finish(rq, resp) ==
    [InitReq EXCEPT !.pc = "done", !.resp = resp, !.input = rq.input,
                    !.handler = rq.handler, !.cl = rq.cl,
                    !.cacheKey = rq.cacheKey, !.at = rq.at, !.seen = rq.seen,
                    !.seenPath = rq.seenPath, !.proof = rq.proof,
                    !.signCalls = rq.signCalls, !.fetches = rq.fetches,
                    !.deletes = rq.deletes, !.puts = rq.puts, !.hit = rq.hit,
                    !.signFailed = rq.signFailed, !.signedOk = rq.signedOk,
                    !.wrote = rq.wrote, !.fetched = rq.fetched,
                    !.reads = rq.reads]

Error500 == Response(500, Text("An error occurred"), NoHeaders)

\* handleM3U8Request from the bucket check (line 419) to the cache lookup
ToLookup(rq, t) ==
    IF rq.bucket = <<>>
    THEN Finish(rq, Uncaught)
    ELSE [rq EXCEPT !.pc = "lookup", !.expDate = Plus(t, rq.ttl)]

\* fetch() and handleM3U8Request up to its first await, for a request among inputs
ArriveM3U8(r, inputs) ==
    /\ MayArrive(r)
    /\ \E input \in inputs, index \in getRandomRobin(Len(clients)) :
         /\ Route(input) = "m3u8"
         /\ IF index + 1 > Len(clients)
            THEN req' = [req EXCEPT ![r] = Finish([InitReq EXCEPT !.input = input, !.handler = "m3u8", !.at = now], Uncaught)]
            ELSE LET conf == clients[index + 1]
                     bk == extractBucketAndKey(removeLeadingSlash(input.path), conf.videoBucket)
                     cacheKey == getCacheKey(conf, bk.bucket, bk.key)
                     valid == TruthyCode(input.clearCache)
                              /\ isClearCodeValid(clients, input.clearCache, now)
                     rq == [InitReq EXCEPT !.input = input, !.handler = "m3u8",
                                          !.cl = index + 1, !.at = now,
                                          !.ttl = calculateExpirationTtl(conf.expiration),
                                          !.bucket = bk.bucket, !.key = bk.key,
                                          !.cacheKey = cacheKey,
                                          !.seen = KvGet(store, now, cacheKey),
                                          !.proof = valid]
                 IN  req' = [req EXCEPT ![r] =
                               IF ~validKey(bk.key) THEN Finish(rq, Uncaught)
                               ELSE IF valid THEN [rq EXCEPT !.pc = "clear"]
                               ELSE ToLookup(rq, now)]
    /\ last' = Remember(r)
    /\ UNCHANGED <<prep, variant, clients, now, store, manifestSrc, posterSrc>>

StartM3U8(r) == ArriveM3U8(r, ManifestInputs(now))

\* the bucket is deleted instead of the key
clearCacheForKey_bucket(st, bucket, key) == KvDelete(st, <<bucket>>)

\* clearCacheForKey(env, bucket, key): the delete of the key
clearCacheForKey(st, bucket, key) == KvDelete(st, key)

\* clearCacheForKey is awaited, and the handler goes on
ClearCache(r) ==
    /\ req[r].pc = "clear"
    /\ store' = clearCacheForKey(store, req[r].bucket, req[r].cacheKey)
    /\ req' = [req EXCEPT ![r] = ToLookup([@ EXCEPT !.deletes = @ + 1], now)]
    /\ UNCHANGED <<prep, variant, clients, now, manifestSrc, posterSrc, last>>

\* history: the live values the store holds for a path, under the cache key
\* of any configured backend
PathEntries(st, t, cls, path) ==
    {[key |-> k, value |-> st[k].value] : k \in {k \in LiveKeys(st, t) :
        \E i \in 1..Len(cls) :
            LET bk == extractBucketAndKey(removeLeadingSlash(path), cls[i].videoBucket)
            IN  k = getCacheKey(cls[i], bk.bucket, bk.key)}}

\* the value read from the cache is not used
IsHit_never(got) == FALSE

\* if (!signedM3u8) is not taken: the read returned a non-empty value
IsHit(got) == got.value.found /\ got.value.value # EmptyM3u8

\* getWithMetadata and the continuation: a hit is answered, a miss asks the
\* backend for the manifest
Lookup(r) ==
    /\ req[r].pc = "lookup"
    /\ LET got == KvGetWithMetadata(store, now, req[r].cacheKey)
           expDate == IF got.metadata # NoMeta THEN got.metadata.expiration
                      ELSE req[r].expDate
           rq == [req[r] EXCEPT !.reads = @ + 1, !.seenPath =
                      PathEntries(store, now, clients, req[r].input.path)]
       IN  req' = [req EXCEPT ![r] =
                     IF IsHit(got)
                     THEN Finish([rq EXCEPT !.hit = TRUE, !.expDate = expDate,
                                            !.m3u8 = got.value.value],
                                 Response(200, M3u8Body(got.value.value),
                                          ManifestHeaders(MaxAge(expDate, now), expDate)))
                     ELSE [rq EXCEPT !.pc = "fetch", !.expDate = expDate,
                                     !.fetches = @ + 1]]
    /\ UNCHANGED <<prep, variant, clients, now, store, manifestSrc, posterSrc, last>>

\* Promise.allSettled instead of Promise.all: a rejection is not noticed
PromiseAll_allSettled(promises) ==
    IF \A i \in 1..Len(promises) : promises[i].state # "pending" THEN "resolved"
    ELSE "pending"

\* Promise.all(promises): it rejects as soon as one promise rejects, and
\* resolves once all have resolved
PromiseAll(promises) ==
    IF \E i \in 1..Len(promises) : promises[i].state = "fail" THEN "rejected"
    ELSE IF \A i \in 1..Len(promises) : promises[i].state = "ok" THEN "resolved"
    ELSE "pending"

\* what getSignedM3u8 and addExpirationDateCommentInM3u8 make of the lines
\* once every URL is there
FinalM3u8(rq, cls) ==
    addExpirationDateCommentInM3u8(
        replaceM3u8Urls(rq.input.origin, rq.input.path,
                        ApplyUrls(rq.m3u8, rq.promises, 1), cls),
        rq.expDate)

\* the continuation of `await Promise.all(...)`: it runs as soon as one
\* promise is rejected (the rewrite fails, the handler answers 500) or all
\* are resolved (the manifest is completed and the put is sent, with the
\* metadata computed then)
Settled(rq, t, cls) ==
    IF PromiseAll(rq.promises) = "rejected" THEN Finish(rq, Error500)
    ELSE IF PromiseAll(rq.promises) = "resolved"
    THEN [rq EXCEPT !.pc = "put", !.m3u8 = FinalM3u8(rq, cls), !.metaExp = Plus(t, rq.ttl)]
    ELSE rq

\* the body is not checked for being empty
GetFails_nobody(outcome, m3u8) == outcome # "ok"

\* getSignedM3u8 throws: send() failed, the answer has no Body, or
\* replaceFilesInM3U8 was given an empty string
GetFails(outcome, m3u8) == outcome # "ok" \/ m3u8 = EmptyM3u8

\* the answer of the backend to GetObject: an error, no body, or the
\* manifest, for whose segments replaceFilesInM3U8 asks the signed URLs
FetchManifest(r) ==
    /\ req[r].pc = "fetch"
    /\ \E outcome \in {"error", "nobody", "ok"} :
         req' = [req EXCEPT ![r] =
                   IF GetFails(outcome, manifestSrc)
                   THEN Finish([@ EXCEPT !.fetched = outcome], Error500)
                   ELSE LET promises == CollectPromises(manifestSrc, 1,
                                            getBasePath(@.input.path))
                        IN  Settled([@ EXCEPT !.pc = "sign", !.m3u8 = manifestSrc,
                                              !.fetched = outcome,
                                              !.promises = promises,
                                              !.signCalls = @ + Len(promises)],
                                    now, clients)]
    /\ UNCHANGED <<prep, variant, clients, now, store, manifestSrc, posterSrc, last>>

\* getSignedUrlForObject: one signing call settles
SignSettles(r) ==
    /\ req[r].pc = "sign"
    /\ \E i \in 1..Len(req[r].promises), ok \in BOOLEAN :
         /\ req[r].promises[i].state = "pending"
         /\ LET rq == req[r]
                url == SignedUrl(rq.cl, rq.bucket, rq.promises[i].key, now,
                                 SignExpiration(clients[rq.cl]))
                settled == IF ok THEN [rq.promises[i] EXCEPT !.state = "ok", !.url = url]
                           ELSE [rq.promises[i] EXCEPT !.state = "fail"]
            IN  req' = [req EXCEPT ![r] =
                          Settled([rq EXCEPT !.promises[i] = settled,
                                             !.signFailed = @ \/ ~ok,
                                             !.signedOk = IF ok THEN @ + 1 ELSE @],
                                  now, clients)]
    /\ UNCHANGED <<prep, variant, clients, now, store, manifestSrc, posterSrc, last>>

\* the store takes the put, and the handler answers
PutManifest(r) ==
    /\ req[r].pc = "put"
    /\ LET rq == req[r]
       IN  IF KvPutAccepts(rq.ttl)
           THEN /\ store' = KvPut(store, now, rq.cacheKey, rq.m3u8,
                                  [expiration |-> rq.metaExp], rq.ttl)
                /\ req' = [req EXCEPT ![r] =
                             Finish([@ EXCEPT !.puts = @ + 1,
                                              !.wrote = Found(Entry(now, rq.m3u8,
                                                  [expiration |-> rq.metaExp], rq.ttl))],
                                    Response(200, M3u8Body(rq.m3u8),
                                             ManifestHeaders(MaxAge(rq.expDate, now),
                                                             rq.expDate)))]
           ELSE /\ store' = store
                /\ req' = [req EXCEPT ![r] = Finish(@, Error500)]
    /\ UNCHANGED <<prep, variant, clients, now, manifestSrc, posterSrc, last>>

----------------------------------------------------------------------------
(* The poster handler *)

\* the text of a 500 of the poster handler: the later revision appends the error
PosterError(v, error) ==
    IF v = "worker" THEN Error500
    ELSE Response(500, [kind |-> "text", text |-> "An error occurred: ", error |-> error],
                  NoHeaders)

\* handlePosterRequest from the bucket check (line 579) to the GetObject
ToPosterFetch(rq) ==
    IF rq.bucket = <<>>
    THEN Finish(rq, Uncaught)
    ELSE [rq EXCEPT !.pc = "posterFetch", !.fetches = @ + 1]

\* fetch() and handlePosterRequest up to its first await, for a request among inputs
ArrivePoster(r, inputs) ==
    /\ MayArrive(r)
    /\ \E input \in inputs, index \in getRandomRobin(Len(clients)) :
         /\ Route(input) = "poster"
         /\ IF index + 1 > Len(clients)
            THEN req' = [req EXCEPT ![r] = Finish([InitReq EXCEPT !.input = input, !.handler = "poster", !.at = now], Uncaught)]
            ELSE LET conf == clients[index + 1]
                     bk == extractBucketAndKey(removeLeadingSlash(input.path), conf.videoBucket)
                     cacheKey == getCacheKey(conf, bk.bucket, bk.key)
                     rq == [InitReq EXCEPT !.input = input, !.handler = "poster",
                                          !.cl = index + 1, !.at = now,
                                          !.bucket = bk.bucket, !.key = bk.key,
                                          !.cacheKey = cacheKey,
                                          !.seen = KvGet(store, now, cacheKey)]
                 IN  req' = [req EXCEPT ![r] =
                               IF input.ifNoneMatch # NoEtag
                               THEN [rq EXCEPT !.pc = "etagGet"]
                               ELSE ToPosterFetch(rq)]
    /\ last' = Remember(r)
    /\ UNCHANGED <<prep, variant, clients, now, store, manifestSrc, posterSrc>>

StartPoster(r) == ArrivePoster(r, PosterInputs)

\* the header is compared with the quoted form of the stored ETag
EtagMatches_quoted(ifNoneMatch, storedEtag) ==
    storedEtag.found /\ ifNoneMatch = [quoted |-> storedEtag.value]

\* the header is not compared with the stored ETag
EtagMatches_any(ifNoneMatch, storedEtag) == storedEtag.found

\* if (storedEtag) if (ifNoneMatch === storedEtag)
EtagMatches(ifNoneMatch, storedEtag) ==
    storedEtag.found /\ ifNoneMatch = storedEtag.value

\* the read of the stored ETag for If-None-Match, and the continuation
EtagGet(r) ==
    /\ req[r].pc = "etagGet"
    /\ LET storedEtag == KvGet(store, now, req[r].cacheKey)
           ifNoneMatch == req[r].input.ifNoneMatch
       IN  req' = [req EXCEPT ![r] =
                     IF EtagMatches(ifNoneMatch, storedEtag)
                     THEN Finish([@ EXCEPT !.hit = TRUE, !.reads = @ + 1],
                                 Response(304, Null, NotModifiedHeaders(ifNoneMatch)))
                     ELSE ToPosterFetch([@ EXCEPT !.reads = @ + 1])]
    /\ UNCHANGED <<prep, variant, clients, now, store, manifestSrc, posterSrc, last>>

\* the answer of the backend to GetObject for the poster
FetchPoster(r) ==
    /\ req[r].pc = "posterFetch"
    /\ \E outcome \in {"error", "nobody", "ok"} :
         req' = [req EXCEPT ![r] =
                   IF outcome # "ok"
                   THEN Finish([@ EXCEPT !.fetched = outcome], PosterError(variant, outcome))
                   ELSE [@ EXCEPT !.bytes = posterSrc, !.fetched = outcome,
                                  !.etag = MD5(posterSrc),
                                  !.pc = IF variant = "worker" THEN "posterPut"
                                         ELSE "posterGet"]]
    /\ UNCHANGED <<prep, variant, clients, now, store, manifestSrc, posterSrc, last>>

Poster200(rq, etag) == Response(200, Bytes(rq.bytes), PosterHeaders(etag))

\* (later revision) the stored ETag is read again and, if there is one, used
PosterGet(r) ==
    /\ req[r].pc = "posterGet"
    /\ LET storedEtag == KvGet(store, now, req[r].cacheKey)
       IN  req' = [req EXCEPT ![r] =
                     IF storedEtag.found
                     THEN Finish([@ EXCEPT !.etag = storedEtag.value, !.reads = @ + 1],
                                 Poster200(@, storedEtag.value))
                     ELSE [@ EXCEPT !.pc = "posterPut", !.reads = @ + 1]]
    /\ UNCHANGED <<prep, variant, clients, now, store, manifestSrc, posterSrc, last>>

\* the metadata the put of the ETag carries
PosterMeta(v, t) == IF v = "worker" THEN NoMeta ELSE [expiration |-> Num(t + POSTER_CACHE_TTL)]

\* the store takes the put of the ETag, and the handler answers
PutEtag(r) ==
    /\ req[r].pc = "posterPut"
    /\ store' = KvPut(store, now, req[r].cacheKey, req[r].etag,
                      PosterMeta(variant, now), Num(POSTER_CACHE_TTL))
    /\ req' = [req EXCEPT ![r] = Finish([@ EXCEPT !.puts = @ + 1], Poster200(@, @.etag))]
    /\ UNCHANGED <<prep, variant, clients, now, manifestSrc, posterSrc, last>>

----------------------------------------------------------------------------
(* The flush handler *)

InvalidCode(v) ==
    Response(IF v = "worker" THEN 400 ELSE 403, Text("Invalid clear code"), NoHeaders)

CacheCleared == Response(200, Text("Cache cleared"), NoHeaders)

\* fetch() and handleFlushCacheRequest up to the first list
StartFlush(r) ==
    /\ MayArrive(r)
    /\ \E input \in FlushInputs(now), index \in getRandomRobin(Len(clients)) :
         /\ Route(input) = "flush"
         /\ LET valid == TruthyCode(input.key) /\ isClearCodeValid(clients, input.key, now)
                rq == [InitReq EXCEPT !.input = input, !.handler = "flush",
                                     !.cl = index + 1, !.at = now,
                                     !.proof = valid]
            IN  req' = [req EXCEPT ![r] =
                          IF valid THEN [rq EXCEPT !.pc = "list"]
                          ELSE Finish(rq, InvalidCode(variant))]
    /\ last' = Remember(r)
    /\ UNCHANGED <<prep, variant, clients, now, store, manifestSrc, posterSrc>>

\* the cursor deleteAllKeys gets back: the adapter of the later revision
\* hands back the cursor it was called with
ReturnedCursor(v, called, answered) == IF v = "worker" THEN answered ELSE called

\* keys = _keys.concat()
KeptKeys(old, page) == page

\* one turn of the do-while loop of deleteAllKeys
ListKeys(r) ==
    /\ req[r].pc = "list"
    /\ \E response \in KvList(store, now, req[r].cursor) :
         LET cursor == ReturnedCursor(variant, req[r].cursor, response.cursor)
             keys == KeptKeys(req[r].keys, response.keys)
         IN  req' = [req EXCEPT ![r] =
                       IF cursor # {} THEN [@ EXCEPT !.keys = keys, !.cursor = cursor]
                       ELSE IF keys = {} THEN Finish([@ EXCEPT !.keys = keys], CacheCleared)
                       ELSE [@ EXCEPT !.keys = keys, !.cursor = cursor, !.pc = "delete"]]
    /\ UNCHANGED <<prep, variant, clients, now, store, manifestSrc, posterSrc, last>>

\* one turn of the for loop of deleteAllKeys; after the last one the handler answers
DeleteKey(r) ==
    /\ req[r].pc = "delete"
    /\ LET key == CHOOSE k \in req[r].keys : TRUE
           rest == req[r].keys \ {key}
       IN  /\ store' = KvDelete(store, key)
           /\ req' = [req EXCEPT ![r] =
                        IF rest = {}
                        THEN Finish([@ EXCEPT !.keys = rest, !.deletes = @ + 1], CacheCleared)
                        ELSE [@ EXCEPT !.keys = rest, !.deletes = @ + 1]]
    /\ UNCHANGED <<prep, variant, clients, now, manifestSrc, posterSrc, last>>

----------------------------------------------------------------------------
(* The other requests *)

StaticResponse(v, input) ==
    IF input.method = "GET"
    THEN CASE input.path = << <<>>, <<>> >> ->
                Response(200, Text("Welcome to the S3 Proxy"), NoHeaders)
           [] input.path = << <<>>, <<"favicon.ico">> >> ->
                IF v = "worker" THEN Response(204, Null, NoHeaders)
                ELSE Response(404, Text("Not found"), NoHeaders)
           [] input.path = << <<>>, <<"health">> >> ->
                Response(200, Text("OK"), NoHeaders)
           [] input.path = << <<>>, <<"robots.txt">> >> ->
                Response(200, Text("User-agent: *\nDisallow: /"), NoHeaders)
           [] OTHER -> Response(404, Text("Not found"), NoHeaders)
    ELSE IF input.method = "OPTIONS"
    THEN Response(200, Null, [cors |-> Cors(86400)])
    ELSE Response(405, Text("Method not allowed"), NoHeaders)

\* fetch() for a request among inputs that no handler takes
ArriveStatic(r, inputs) ==
    /\ MayArrive(r)
    /\ \E input \in inputs :
         /\ Route(input) = "static"
         /\ req' = [req EXCEPT ![r] =
                      Finish([InitReq EXCEPT !.input = input, !.handler = "fetch", !.at = now],
                             StaticResponse(variant, input))]
    /\ last' = Remember(r)
    /\ UNCHANGED <<prep, variant, clients, now, store, manifestSrc, posterSrc>>

StartStatic(r) == ArriveStatic(r, StaticInputs)

----------------------------------------------------------------------------
(* The environment *)

TickClock ==
    /\ now + Tick <= StartTime + MaxTicks * Tick
    /\ now' = now + Tick
    /\ UNCHANGED <<prep, variant, clients, store, manifestSrc, posterSrc, req, last>>

\* the poster object is replaced on the backends
ChangePoster ==
    /\ posterSrc = "jpgA"
    /\ posterSrc' = "jpgB"
    /\ UNCHANGED <<prep, variant, clients, now, store, manifestSrc, req, last>>

----------------------------------------------------------------------------
(* prepare-env: the step that writes s3-config.json from the environment   *)
(* (unnamed/part_000).  The value of a variable is given as the list of    *)
(* its pieces between commas, what split(",") returns: "" and an unset     *)
(* variable are <<"">>, "a," is <<"a", "">>.                               *)

EnvNames ==
    {"S3_REGION", "S3_ACCESS_KEY", "S3_SECRET_KEY", "S3_ENDPOINT", "S3_VIDEO_BUCKET",
     "S3_EXPIRATION"}
EnvValues == {<<"">>, <<"a">>, <<"a", "b">>, <<"a", "">>}
Envs == [EnvNames -> EnvValues]

\* exit: "none" (not run), "running", "0" or "1"; written: s3-config.json
\* has been written, and holds config
NoPrepare == [env |-> <<>>, exit |-> "none", written |-> FALSE, config |-> <<>>]

\* !process.env.X: the variable is unset or empty
Falsy(value) == value = <<"">>

\* the records pushed by the loop
S3Confs(env) ==
    [i \in 1..Len(env["S3_REGION"]) |->
        [region |-> env["S3_REGION"][i],
         credentials |-> [accessKeyId |-> env["S3_ACCESS_KEY"][i],
                          secretAccessKey |-> env["S3_SECRET_KEY"][i]],
         endpoint |-> env["S3_ENDPOINT"][i],
         expiration |-> env["S3_EXPIRATION"][i],
         videoBucket |-> env["S3_VIDEO_BUCKET"][i]]]

\* the whole script, from the test of the variables to the writeFile
PrepareEnv ==
    /\ prep.exit = "running"
    /\ LET env == prep.env
           missing == \E name \in EnvNames : Falsy(env[name])
           allSameLength ==
               \A name \in EnvNames : Len(env[name]) = Len(env["S3_REGION"])
           allNonEmpty == \A name \in EnvNames : Len(env[name]) > 0
       IN  prep' =
             IF missing \/ ~allSameLength \/ (Len(env["S3_REGION"]) > 0 /\ ~allNonEmpty)
             THEN [prep EXCEPT !.exit = "1"]
             ELSE [prep EXCEPT !.exit = "0", !.written = TRUE, !.config = S3Confs(env)]
    /\ UNCHANGED <<variant, clients, now, store, manifestSrc, posterSrc, req, last>>

----------------------------------------------------------------------------
(* The specification *)

Variants == {"worker", "generic"}

\* the worker is deployed: the cache is empty and no request has arrived
Deployed ==
    /\ last = NoLast
    /\ prep = NoPrepare
    /\ variant \in Variants
    /\ clients \in Registries
    /\ now = StartTime
    /\ store = <<>>
    /\ posterSrc = "jpgA"
    /\ req = [r \in Requests |-> InitReq]

\* the manifest the backends hold where its content is not the point
MainManifest == <<Header, <<Seg("init", ".mp4")>>, <<Seg("s0", ".m4s")>>, <<Nested("audio")>> >>

Init == Deployed /\ manifestSrc = MainManifest
InitManifest == Deployed /\ manifestSrc \in Manifests

Next ==
    \/ \E r \in Requests : StartM3U8(r)
    \/ \E r \in Requests : ClearCache(r)
    \/ \E r \in Requests : Lookup(r)
    \/ \E r \in Requests : FetchManifest(r)
    \/ \E r \in Requests : SignSettles(r)
    \/ \E r \in Requests : PutManifest(r)
    \/ \E r \in Requests : StartPoster(r)
    \/ \E r \in Requests : EtagGet(r)
    \/ \E r \in Requests : FetchPoster(r)
    \/ \E r \in Requests : PosterGet(r)
    \/ \E r \in Requests : PutEtag(r)
    \/ \E r \in Requests : StartFlush(r)
    \/ \E r \in Requests : ListKeys(r)
    \/ \E r \in Requests : DeleteKey(r)
    \/ \E r \in Requests : StartStatic(r)

Spec == Init /\ [][Next]_vars

NextManifest ==
    \/ \E r \in Requests : StartM3U8(r)
    \/ \E r \in Requests : ClearCache(r)
    \/ \E r \in Requests : Lookup(r)
    \/ \E r \in Requests : FetchManifest(r)
    \/ \E r \in Requests : SignSettles(r)
    \/ \E r \in Requests : PutManifest(r)
    \/ TickClock

SpecManifest == InitManifest /\ [][NextManifest]_vars

\* posters are requested and the cache is flushed, while time passes
NextFlush ==
    \/ \E r \in Requests : StartPoster(r)
    \/ \E r \in Requests : EtagGet(r)
    \/ \E r \in Requests : FetchPoster(r)
    \/ \E r \in Requests : PosterGet(r)
    \/ \E r \in Requests : PutEtag(r)
    \/ \E r \in Requests : StartFlush(r)
    \/ \E r \in Requests : ListKeys(r)
    \/ \E r \in Requests : DeleteKey(r)
    \/ TickClock
SpecFlush == Init /\ [][NextFlush]_vars

NextPoster ==
    \/ \E r \in Requests : StartPoster(r)
    \/ \E r \in Requests : EtagGet(r)
    \/ \E r \in Requests : FetchPoster(r)
    \/ \E r \in Requests : PosterGet(r)
    \/ \E r \in Requests : PutEtag(r)
    \/ ChangePoster

SpecPoster == Init /\ [][NextPoster]_vars

\* one backend, whatever its declared expiration, serves manifests while
\* time passes
InitExpiry ==
    /\ last = NoLast
    /\ prep = NoPrepare
    /\ variant \in Variants
    /\ clients \in ExpiryRegistries
    /\ now = StartTime
    /\ store = <<>>
    /\ posterSrc = "jpgA"
    /\ req = [r \in Requests |-> InitReq]
    /\ manifestSrc = MainManifest

SpecExpiry == InitExpiry /\ [][NextManifest]_vars

\* s3-config.json may hold no backend at all
AnyRegistries == Registries \cup {<<>>}

\* requests of every kind; those for a manifest or a poster at any place
\* arrive while the cache is empty
RouteM3U8(r) == store = <<>> /\ ArriveM3U8(r, AnyManifestInputs(now))
RoutePoster(r) == store = <<>> /\ ArrivePoster(r, AnyPosterInputs)
RouteStatic(r) == ArriveStatic(r, AnyStaticInputs)

InitRoutes ==
    /\ last = NoLast
    /\ prep = NoPrepare
    /\ variant \in Variants
    /\ clients \in AnyRegistries
    /\ now = StartTime
    /\ store = <<>>
    /\ posterSrc = "jpgA"
    /\ req = [r \in Requests |-> InitReq]
    /\ manifestSrc = MainManifest

NextRoutes ==
    \/ \E r \in Requests : RouteM3U8(r)
    \/ \E r \in Requests : ClearCache(r)
    \/ \E r \in Requests : Lookup(r)
    \/ \E r \in Requests : FetchManifest(r)
    \/ \E r \in Requests : SignSettles(r)
    \/ \E r \in Requests : PutManifest(r)
    \/ \E r \in Requests : RoutePoster(r)
    \/ \E r \in Requests : EtagGet(r)
    \/ \E r \in Requests : FetchPoster(r)
    \/ \E r \in Requests : PosterGet(r)
    \/ \E r \in Requests : PutEtag(r)
    \/ \E r \in Requests : StartFlush(r)
    \/ \E r \in Requests : ListKeys(r)
    \/ \E r \in Requests : DeleteKey(r)
    \/ \E r \in Requests : RouteStatic(r)

SpecRoutes == InitRoutes /\ [][NextRoutes]_vars

\* posters at two depths are asked of two backends, one after the other
KeyPoster(r) == ArrivePoster(r, KeyPosterInputs)

InitKeys ==
    /\ last = NoLast
    /\ prep = NoPrepare
    /\ variant \in Variants
    /\ clients \in KeyRegistries
    /\ now = StartTime
    /\ store = <<>>
    /\ posterSrc = "jpgA"
    /\ req = [r \in Requests |-> InitReq]
    /\ manifestSrc = MainManifest

NextKeys ==
    \/ \E r \in Requests : KeyPoster(r)
    \/ \E r \in Requests : EtagGet(r)
    \/ \E r \in Requests : FetchPoster(r)
    \/ \E r \in Requests : PosterGet(r)
    \/ \E r \in Requests : PutEtag(r)

SpecKeys == InitKeys /\ [][NextKeys]_vars

\* prepare-env is run in an environment, before any deployment
InitPrepare ==
    /\ prep \in {[NoPrepare EXCEPT !.env = e, !.exit = "running"] : e \in Envs}
    /\ last = NoLast
    /\ variant = "worker"
    /\ clients = <<>>
    /\ now = StartTime
    /\ store = <<>>
    /\ posterSrc = "jpgA"
    /\ req = [r \in Requests |-> InitReq]
    /\ manifestSrc = MainManifest

SpecPrepare == InitPrepare /\ [][PrepareEnv]_vars

\* two requests for the same manifest, not in the cache, are in the handler
\* together, while time passes
Racers == {1, 2}

RaceM3U8(r) == req[r].pc = "new" /\ ArriveM3U8(r, RaceInputs)

InitRace ==
    /\ last = NoLast
    /\ prep = NoPrepare
    /\ variant \in Variants
    /\ clients = <<CfgB>>
    /\ now = StartTime
    /\ store = <<>>
    /\ posterSrc = "jpgA"
    /\ req = [r \in Racers |-> InitReq]
    /\ manifestSrc = MainManifest

NextRace ==
    \/ \E r \in Racers : RaceM3U8(r)
    \/ \E r \in Racers : Lookup(r)
    \/ \E r \in Racers : FetchManifest(r)
    \/ \E r \in Racers : SignSettles(r)
    \/ \E r \in Racers : PutManifest(r)
    \/ TickClock

SpecRace == InitRace /\ [][NextRace]_vars

\* one backend serves a manifest to clients that reach the proxy under two
\* host names
HostM3U8(r) == ArriveM3U8(r, HostInputs(now))

InitHosts ==
    /\ last = NoLast
    /\ prep = NoPrepare
    /\ variant \in Variants
    /\ clients = <<CfgB>>
    /\ now = StartTime
    /\ store = <<>>
    /\ posterSrc = "jpgA"
    /\ req = [r \in Requests |-> InitReq]
    /\ manifestSrc = HostManifest

NextHosts ==
    \/ \E r \in Requests : HostM3U8(r)
    \/ \E r \in Requests : ClearCache(r)
    \/ \E r \in Requests : Lookup(r)
    \/ \E r \in Requests : FetchManifest(r)
    \/ \E r \in Requests : SignSettles(r)
    \/ \E r \in Requests : PutManifest(r)
    \/ TickClock

SpecHosts == InitHosts /\ [][NextHosts]_vars

\* two backends serve a manifest: requests for it, with or without a code,
\* are answered one after the other, and once the last of them is answered
\* one more request for it arrives
InvalidatingM3U8 == req[2].pc = "new" /\ ArriveM3U8(1, ManifestInputs(now))
LaterM3U8 == req[1].pc = "done" /\ req[2].pc = "new" /\ ArriveM3U8(2, RaceInputs)

InitLater ==
    /\ last = NoLast
    /\ prep = NoPrepare
    /\ variant \in Variants
    /\ clients = <<CfgA, CfgB>>
    /\ now = StartTime
    /\ store = <<>>
    /\ posterSrc = "jpgA"
    /\ req = [r \in Racers |-> InitReq]
    /\ manifestSrc = MainManifest

NextLater ==
    \/ InvalidatingM3U8
    \/ LaterM3U8
    \/ \E r \in Racers : ClearCache(r)
    \/ \E r \in Racers : Lookup(r)
    \/ \E r \in Racers : FetchManifest(r)
    \/ \E r \in Racers : SignSettles(r)
    \/ \E r \in Racers : PutManifest(r)
    \/ TickClock

SpecLater == InitLater /\ [][NextLater]_vars

\* one backend serves a manifest that is replaced on the backend while a
\* request for it may be in the handler; after the replacement a second
\* client asks for the manifest with a code, or for a flush
MissM3U8 == req[1].pc = "new" /\ ArriveM3U8(1, RaceInputs)

ChangeManifest ==
    /\ manifestSrc = MainManifest
    /\ manifestSrc' = HostManifest
    /\ UNCHANGED <<prep, variant, clients, now, store, posterSrc, req, last>>

InvalidateM3U8 ==
    manifestSrc = HostManifest /\ req[2].pc = "new" /\ ArriveM3U8(2, ManifestInputs(now))
InvalidateAll ==
    manifestSrc = HostManifest /\ req[2].pc = "new" /\ StartFlush(2)

NextInFlight ==
    \/ MissM3U8
    \/ ChangeManifest
    \/ InvalidateM3U8
    \/ InvalidateAll
    \/ \E r \in Racers : ClearCache(r)
    \/ \E r \in Racers : Lookup(r)
    \/ \E r \in Racers : FetchManifest(r)
    \/ \E r \in Racers : SignSettles(r)
    \/ \E r \in Racers : PutManifest(r)
    \/ \E r \in Racers : ListKeys(r)
    \/ \E r \in Racers : DeleteKey(r)
    \/ TickClock

SpecInFlight == InitRace /\ [][NextInFlight]_vars

\* two backends: one client asks once for a flush while the requests of the
\* others, for two posters, keep putting entries into the store; the store
\* answers every list and every delete of the flush
FlushOnce == req[2].pc = "new" /\ StartFlush(2)

NextFlushing ==
    \/ FlushOnce
    \/ ListKeys(2)
    \/ DeleteKey(2)
    \/ StartPoster(1)
    \/ EtagGet(1)
    \/ FetchPoster(1)
    \/ PosterGet(1)
    \/ PutEtag(1)

SpecFlushing ==
    InitLater /\ [][NextFlushing]_vars /\ WF_vars(ListKeys(2)) /\ WF_vars(DeleteKey(2))

----------------------------------------------------------------------------
(* Properties of the manifest handler (SpecManifest) *)

IsSigned(tok) == tok.t = "signed"

\* the signed URLs a manifest contains
SignedUrlsOf(m3u8) ==
    UNION {{m3u8[i][j] : j \in Positions(m3u8[i], "signed")} : i \in 1..Len(m3u8)}

\* the segment references a manifest still contains
SegmentsOf(m3u8) ==
    UNION {{m3u8[i][j] : j \in Positions(m3u8[i], "seg")} : i \in 1..Len(m3u8)}

\* the keys under which manifests are stored
ManifestKeys(st) == {k \in DOMAIN st : EndsWith(k, ".m3u8")}

\* the requests for a manifest that have been answered
AnsweredM3u8 ==
    {r \in Requests : req[r].pc = "done" /\ Route(req[r].input) = "m3u8"}

C2_LiveEntryServedAgain ==
    \A r \in AnsweredM3u8 :
        ~req[r].proof /\ req[r].seenPath # {}
            => /\ req[r].resp.status = 200
               /\ \E e \in req[r].seenPath : req[r].resp.body = M3u8Body(e.value)
               /\ req[r].signCalls = 0

\* C2, amended: a manifest request without proof that reads the cache while
\* an entry stored for its path by a request served by the same backend is
\* live is answered 200 with the body of that entry and makes no signing call.
C2_LiveEntryOfSameBackendServedAgain ==
    \A r \in AnsweredM3u8 : \A e \in req[r].seenPath :
        ~req[r].proof /\ e.key = req[r].cacheKey
            => /\ req[r].resp.status = 200
               /\ req[r].resp.body = M3u8Body(e.value)
               /\ req[r].signCalls = 0

\* C2, witness: with two backends, a request is answered from the entry a
\* request served by the same backend stored, after some time.
C2_SecondRequestWithinWindow ==
    \E r \in AnsweredM3u8 : \E e \in req[r].seenPath :
        /\ Len(clients) = 2
        /\ ~req[r].proof /\ e.key = req[r].cacheKey
        /\ store[e.key].storedAt < req[r].at
        /\ SignedUrlsOf(e.value) # {}

\* C3: once a signing call has failed the request is answered 500 and has
\* put nothing, and no manifest that still holds a segment reference is
\* stored or served.
C3_FailedSigningServesAndStoresNothing ==
    /\ \A r \in Requests :
          req[r].signFailed
              => req[r].pc = "done" /\ req[r].resp.status = 500 /\ req[r].puts = 0
    /\ \A k \in ManifestKeys(store) : SegmentsOf(store[k].value) = {}
    /\ \A r \in AnsweredM3u8 :
          req[r].resp.status = 200 => SegmentsOf(req[r].resp.body.lines) = {}

\* C3, witness: a signing call failed after another one of the same manifest
\* had succeeded, and the request is answered.
C3_FailedAfterPartialSigning ==
    \E r \in AnsweredM3u8 : req[r].signFailed /\ req[r].signedOk > 0

\* the line of the answered manifest that holds line i of the source: the
\* expiration comment is put in after the first line
BodyLine(i) == IF i = 1 THEN 1 ELSE i + 1

\* C4, as stated: in a manifest answered from a fresh rewrite every segment
\* reference of the source, also where a line holds several, is replaced by a
\* signed URL for that very segment, and as many signing calls are made as
\* there are references.
C4_EachReferenceItsOwnUrl ==
    \A r \in AnsweredM3u8 :
        req[r].resp.status = 200 /\ ~req[r].hit
            => LET body == req[r].resp.body.lines
                   basePath == getBasePath(req[r].input.path)
               IN  /\ \A i \in 1..Len(manifestSrc) :
                        \A j \in Positions(manifestSrc[i], "seg") :
                            /\ IsSigned(body[BodyLine(i)][j])
                            /\ body[BodyLine(i)][j].key =
                                   SegmentKey(basePath, manifestSrc[i][j].name)
                   /\ \A i \in 1..Len(manifestSrc) :
                        Positions(manifestSrc[i], "seg") = {}
                        /\ Positions(manifestSrc[i], "m3u8") = {}
                            => body[BodyLine(i)] = manifestSrc[i]
                   /\ req[r].signCalls = Cardinality(
                          UNION {{<<i, j>> : j \in Positions(manifestSrc[i], "seg")} :
                                    i \in 1..Len(manifestSrc)})

\* C8: a manifest request with a valid proof deletes its key before it reads
\* the cache, finds no entry under that key, is not answered from the cache
\* and, when answered 200, was answered from a fetch of its own.
C8_ValidProofBypassesCache ==
    \A r \in Requests :
        req[r].proof /\ Route(req[r].input) = "m3u8" /\ req[r].pc \notin {"clear"}
            => /\ req[r].deletes = 1
               /\ \A e \in req[r].seenPath : e.key # req[r].cacheKey
               /\ ~req[r].hit
               /\ (req[r].pc = "done" /\ req[r].resp.status = 200
                      => req[r].fetches = 1 /\ req[r].puts = 1)

\* C8, witness: a request with a valid proof arrived while its key was
\* cached, and is answered 200.
C8_InvalidatedWhileCached ==
    \E r \in AnsweredM3u8 :
        req[r].proof /\ req[r].seen.found /\ req[r].resp.status = 200

----------------------------------------------------------------------------
(* Properties of the poster handler (SpecPoster) *)

\* the requests for a poster that have been answered
AnsweredPoster ==
    {r \in Requests : req[r].pc = "done" /\ Route(req[r].input) = "poster"}

\* request r asks again for the poster the request before it was answered
\* 200 with, presents the ETag of that answer, and the poster has not
\* changed since
AsksAgain(r) ==
    /\ last.pc = "done" /\ last.resp.status = 200
    /\ req[r].input.path = last.input.path
    /\ req[r].input.ifNoneMatch = last.resp.headers.etag
    /\ posterSrc = last.resp.body.bytes

C10_EtagIsHashOfBody ==
    \A r \in AnsweredPoster :
        req[r].resp.status = 200
            => LET h == req[r].resp.headers
                   k == req[r].cacheKey
               IN  /\ h.contentType = "image/jpeg"
                   /\ h.cacheControl.immutable
                   /\ h.cacheControl.maxAge = Num(POSTER_CACHE_TTL)
                   /\ h.etag = MD5(req[r].resp.body.bytes)
                   /\ Live(store, now, k)
                   /\ store[k].value = h.etag
                   /\ store[k].ttl = POSTER_CACHE_TTL

----------------------------------------------------------------------------
(* Properties of the proof and of the flush (SpecFlush, Spec) *)

\* the code a request presents
ProofCode(rq) ==
    IF Route(rq.input) = "flush" THEN rq.input.key ELSE rq.input.clearCache

\* the code is the one of the day the request arrived, for the secret of a
\* configured backend
ProvedBy(rq) ==
    \E i \in 1..Len(clients) :
        ProofCode(rq) = HmacSHA256(daysSinceEpoch(rq.at), clients[i].secretAccessKey)

\* the requests for a flush that have been answered
AnsweredFlush ==
    {r \in Requests : req[r].pc = "done" /\ Route(req[r].input) = "flush"}

\* C5: once a flush is answered 200 the store holds no key, however many
\* pages the list took.
C5_FlushLeavesNoKey ==
    \A r \in AnsweredFlush : req[r].resp.status = 200 => LiveKeys(store, now) = {}

\* C7: the proof of a flush request is accepted exactly when its code is the
\* one of the current day for the secret of some configured backend; without
\* a code the request is refused.
C7_ProofAcceptedIffCodeOfTheDay ==
    \A r \in Requests :
        req[r].pc # "new" /\ Route(req[r].input) = "flush"
            => /\ req[r].proof <=> ProvedBy(req[r])
               /\ req[r].input.key = NoCode => ~req[r].proof
               /\ req[r].pc = "done" /\ ~req[r].proof
                      => req[r].resp = InvalidCode(variant)

\* C7, witness: after a day change, with two backends, a flush request proves
\* itself with the secret of the second, and another is refused.
C7_ProvedBySecondSecret ==
    \E r \in Requests :
        /\ req[r].pc # "new" /\ Route(req[r].input) = "flush"
        /\ Len(clients) = 2 /\ daysSinceEpoch(req[r].at) > daysSinceEpoch(StartTime)
        /\ req[r].proof
        /\ req[r].input.key = HmacSHA256(daysSinceEpoch(req[r].at), "s2")

\* C6: a step of a request the code of which is missing or is not the one
\* of the day for a configured secret takes no key out of the store; such a
\* flush request is answered 400 or 403 at once and leaves the store as it is.
C6_NoDeleteWithoutProof ==
    [][\A r \in Requests :
          req'[r].pc # "new" /\ ~ProvedBy(req'[r])
              => /\ DOMAIN store \subseteq DOMAIN store'
                 /\ req'[r].deletes = 0
                 /\ Route(req'[r].input) = "flush"
                        => /\ store' = store
                           /\ req'[r].pc = "done"
                           /\ req'[r].resp.status \in {400, 403}]_vars

\* C6, witness: while the store holds keys, a flush request that presents
\* the code of the day before is answered.
C6_RefusedWhileCached ==
    \E r \in AnsweredFlush :
        /\ req[r].input.key = HmacSHA256(daysSinceEpoch(req[r].at) - 1, "s1")
        /\ LiveKeys(store, now) # {}

----------------------------------------------------------------------------
(* Properties of the headers of a manifest response (SpecManifest) *)

\* C11: every manifest answered 200, from the cache or from a fresh rewrite,
\* whatever the configured expiration and the time elapsed, carries a
\* Cache-Control max-age that is a number and is not negative.
C11_MaxAgeNeverNegative ==
    \A r \in AnsweredM3u8 :
        req[r].resp.status = 200
            => LET maxAge == req[r].resp.headers.cacheControl.maxAge
               IN  ~maxAge.nan /\ maxAge.v >= 0

----------------------------------------------------------------------------
(* Properties of the time to live (SpecExpiry) *)

\* the expiration the only backend declares
DeclaredExpiration == clients[1].expiration

\* C12: a stored manifest has the time to live of its backend's declared
\* expiration less 100 s, 3500 s when none is declared, so 3500 s for 3600;
\* the miss that stored it is answered with that max-age less the time that
\* passed during the request.
C12_TtlIsExpirationLessMargin ==
    /\ \A k \in ManifestKeys(store) :
          /\ DeclaredExpiration = <<>> => store[k].ttl = 3500
          /\ DeclaredExpiration = <<"3", "6", "0", "0">> => store[k].ttl = 3500
          /\ DeclaredExpiration = <<"2", "0", "0">> => store[k].ttl = 100
          /\ DeclaredExpiration \in {<<>>, <<"3", "6", "0", "0">>, <<"2", "0", "0">>}
    /\ \A r \in AnsweredM3u8 :
          req[r].resp.status = 200 /\ req[r].puts = 1
              => LET maxAge == req[r].resp.headers.cacheControl.maxAge
                     ttl == IF DeclaredExpiration = <<"2", "0", "0">> THEN 100 ELSE 3500
                 IN  /\ ~maxAge.nan
                     /\ maxAge.v <= ttl
                     /\ maxAge.v >= ttl - (now - req[r].at)
                     /\ req[r].resp.headers.cacheControl.public

\* C12, witness: with a declared expiration of 3600 s, a miss that took some
\* time has stored its manifest and is answered.
C12_MissWithHourExpiration ==
    \E r \in AnsweredM3u8 :
        /\ DeclaredExpiration = <<"3", "6", "0", "0">>
        /\ req[r].resp.status = 200 /\ req[r].puts = 1
        /\ req[r].resp.headers.cacheControl.maxAge.v < 3500
        /\ req[r].cacheKey \in DOMAIN store

----------------------------------------------------------------------------
(* Properties of the routing (SpecRoutes) *)

\* the requests that have ended
Ended == {r \in Requests : req[r].pc = "done"}

\* C13: every request that has ended was given a response: no exception
\* left the fetch handler, whatever the method, the path, the query and the
\* number of configured backends.
C13_NoExceptionEscapes ==
    \A r \in Ended : ~req[r].resp.threw /\ req[r].resp.status # 0

\* the handler the path and the method of a request call for
HandlerFor(input) ==
    IF input.method # "GET" THEN "fetch"
    ELSE IF EndsWith(input.path, ".m3u8") THEN "m3u8"
    ELSE IF EndsWith(input.path, "_poster.jpg") THEN "poster"
    ELSE IF input.path = << <<>>, <<"flush-cache">> >> THEN "flush"
    ELSE "fetch"

\* rq, answered by fetch() itself, has the answer of its class and has
\* touched neither the cache nor a backend; faviconApart: /favicon.ico is a
\* class of its own
StaticAnswer(rq, faviconApart) ==
    LET path == rq.input.path
        resp == rq.resp
        notFound == resp.status = 404 /\ resp.body.kind = "text"
    IN  /\ rq.pc = "done" /\ ~resp.threw
        /\ rq.fetches = 0 /\ rq.puts = 0 /\ rq.deletes = 0 /\ rq.signCalls = 0
        /\ rq.seen = NoValue
        /\ IF rq.input.method = "GET"
           THEN IF path \in {<< <<>>, <<>> >>, << <<>>, <<"health">> >>,
                             << <<>>, <<"robots.txt">> >>}
                THEN resp.status = 200 /\ resp.body.kind = "text"
                ELSE IF faviconApart /\ path = << <<>>, <<"favicon.ico">> >>
                THEN IF variant = "worker"
                     THEN resp.status = 204 /\ resp.body = Null
                     ELSE notFound
                ELSE notFound
           ELSE IF rq.input.method = "OPTIONS"
           THEN /\ resp.status = 200 /\ resp.body = Null
                /\ resp.headers.cors.acMaxAge = 86400
                /\ resp.headers.cors.acAllowMethods = "GET, OPTIONS"
           ELSE resp.status = 405

\* every request that arrives is taken by the handler of its class, and one
\* fetch() answers itself leaves the cache as it was
Classified(faviconApart) ==
    \A r \in Requests :
        req'[r] # req[r] /\ req[r].pc \in {"new", "done"}
            => /\ req'[r].handler = HandlerFor(req'[r].input)
               /\ req'[r].handler = "fetch"
                     => store' = store /\ StaticAnswer(req'[r], faviconApart)

\* C14, as stated: a GET for a path ending in .m3u8 goes to the manifest
\* handler, else one ending in _poster.jpg to the poster handler, /flush-cache
\* to the flush handler; /, /health and /robots.txt are answered 200, every
\* other GET 404 with a text body, OPTIONS the preflight headers with max-age
\* 86400, every other method 405, and these answers touch neither the cache
\* nor a backend.
C14_EveryOtherGetNotFound == [][Classified(FALSE)]_vars

\* C14, amended: the same, /favicon.ico being a static path of its own,
\* answered 204 without a body by the worker and 404 by the later revision.
C14_EveryOtherGetButFaviconNotFound == [][Classified(TRUE)]_vars

\* C14, witness: the worker has answered a GET for /favicon.ico, which
\* arrived while the cache held an entry.
C14_FaviconAnsweredByWorker ==
    \E r \in Ended :
        /\ req[r].input.method = "GET"
        /\ req[r].input.path = << <<>>, <<"favicon.ico">> >>
        /\ req[r].handler = "fetch"
        /\ req[r].resp.status = 204
        /\ store # <<>>

\* C17: with n >= 1 backends a request is served by the client of an index
\* in 0..n-1; with none, no request of any kind is answered with a success
\* status.
C17_NoBackendNoSuccess ==
    /\ \A r \in Requests :
          Len(clients) >= 1 /\ req[r].handler \in {"m3u8", "poster"}
              => req[r].cl - 1 \in 0..(Len(clients) - 1)
    /\ \A r \in Ended :
          Len(clients) = 0 => req[r].resp.status \notin 200..299

\* the bucket and the key of the object a request asks for
RequestedObject(rq) ==
    LET file == Tail(rq.input.path)
    IN  IF Len(file) > 1
        THEN [bucket |-> file[1], key |-> Tail(file)]
        ELSE [bucket |-> clients[rq.cl].videoBucket, key |-> file]

\* C20: in a manifest answered from a fresh rewrite, wherever the manifest
\* lies (under directories of the bucket, directly under the bucket, or in
\* the default bucket), each segment is signed in the manifest's bucket under
\* the key made of the directory of the manifest's own key, without a
\* leading slash, and the name of the segment.
C20_SegmentsSignedBesideManifest ==
    \A r \in AnsweredM3u8 :
        req[r].resp.status = 200 /\ ~req[r].hit
            => LET body == req[r].resp.body.lines
                   object == RequestedObject(req[r])
               IN  \A i \in 1..Len(manifestSrc) :
                     \A j \in Positions(manifestSrc[i], "seg") :
                       /\ IsSigned(body[BodyLine(i)][j])
                       /\ body[BodyLine(i)][j].bucket = object.bucket
                       /\ body[BodyLine(i)][j].key =
                              DropLast(object.key) \o <<manifestSrc[i][j].name>>

\* C19: a GET for the path of a segment of the video (.mp4, .m4s), under a
\* bucket of a configured backend, is answered 200 with the bytes of the
\* segment and a video content type.
C19_SegmentServedThroughProxy ==
    \A r \in Ended :
        Len(clients) >= 1 /\ req[r].input.method = "GET"
        /\ req[r].input.path \in SegmentPaths
            => /\ req[r].resp.status = 200
               /\ req[r].resp.body.kind = "bytes"
               /\ req[r].resp.headers.contentType \in {"video/mp4", "video/iso.segment"}

----------------------------------------------------------------------------
(* Properties of the cache key (SpecKeys) *)

\* the endpoint, the bucket and the key a request is served with
Triple(rq) ==
    [endpoint |-> clients[rq.cl].endpoint,
     bucket |-> RequestedObject(rq).bucket, key |-> RequestedObject(rq).key]

\* the request in hand and the one answered before it, both served by a backend
Consecutive ==
    {r \in Requests : req[r].handler = "poster" /\ req[r].cl > 0
                       /\ last.pc = "done" /\ last.cl > 0}

\* C16, as stated: two requests served with different (endpoint, bucket,
\* key) have different cache keys, and two served with the same have the same.
C16_CacheKeyInjective ==
    \A r \in Consecutive :
        req[r].cacheKey = last.cacheKey <=> Triple(req[r]) = Triple(last)

\* C16, amended: two requests served with the same (endpoint, bucket, key)
\* have the same cache key; two served with different ones that share their
\* endpoint, or share bucket and key, have different cache keys.
C16_CacheKeyInjectivePerEndpointAndPerObject ==
    \A r \in Consecutive :
        /\ Triple(req[r]) = Triple(last) => req[r].cacheKey = last.cacheKey
        /\ Triple(req[r]) # Triple(last)
           /\ (Triple(req[r]).endpoint = Triple(last).endpoint
               \/ RequestedObject(req[r]) = RequestedObject(last))
              => req[r].cacheKey # last.cacheKey

\* C16, witness: the same object is asked of two backends with different
\* endpoints, one request after the other, the first having stored its ETag.
C16_SameObjectTwoEndpoints ==
    \E r \in Consecutive :
        /\ RequestedObject(req[r]) = RequestedObject(last)
        /\ Triple(req[r]).endpoint # Triple(last).endpoint
        /\ last.cacheKey \in DOMAIN store

----------------------------------------------------------------------------
(* Properties of prepare-env (SpecPrepare) *)

\* the number of elements of a list of the environment: none when it is
\* unset or empty
Elements(value) == IF value = <<"">> THEN 0 ELSE Len(value)

\* C18: when the lists of the environment do not all have the same non-zero
\* number of elements prepare-env exits with an error and writes no
\* configuration; a configuration it writes has one record per position,
\* every field of which is non-empty.
C18_WrittenConfigurationComplete ==
    prep.exit \in {"0", "1"}
        => /\ (\E name \in EnvNames :
                    Elements(prep.env[name]) = 0
                    \/ Elements(prep.env[name]) # Elements(prep.env["S3_REGION"]))
                 => prep.exit = "1" /\ ~prep.written
           /\ prep.written
                 => /\ Len(prep.config) = Elements(prep.env["S3_REGION"])
                    /\ \A i \in 1..Len(prep.config) :
                          LET c == prep.config[i]
                          IN  "" \notin {c.region, c.credentials.accessKeyId,
                                         c.credentials.secretAccessKey, c.endpoint,
                                         c.expiration, c.videoBucket}

----------------------------------------------------------------------------
(* Properties of concurrent misses (SpecRace) *)

\* the racers that found no entry and whose backend calls all succeeded
Regenerated ==
    {r \in Racers : /\ req[r].pc = "done" /\ ~req[r].hit
                    /\ req[r].signCalls > 0 /\ ~req[r].signFailed}

\* the racers that have put an entry
Writers == {r \in Racers : req[r].wrote.found}

\* C15: of requests for the same missing manifest that are in the handler
\* together, each one whose backend calls succeed is answered 200 with the
\* complete, fully signed manifest it made and put itself; once all have
\* ended the store holds under the key one entry, which is as a whole the
\* entry one of them put, and no other put came after it.
C15_ConcurrentMissesBenign ==
    /\ \A r \in Regenerated :
          /\ req[r].resp.status = 200
          /\ SegmentsOf(req[r].resp.body.lines) = {}
          /\ Cardinality(SignedUrlsOf(req[r].resp.body.lines)) = req[r].signCalls
          /\ \A u \in SignedUrlsOf(req[r].resp.body.lines) : u.at >= req[r].at
          /\ req[r].wrote.found
          /\ req[r].wrote.value.value = req[r].resp.body.lines
    /\ (\A r \in Racers : req[r].pc = "done") /\ Writers # {}
          => \E w \in Writers :
                /\ DOMAIN store = {req[w].cacheKey}
                /\ store[req[w].cacheKey] = req[w].wrote.value
                /\ \A v \in Writers :
                      req[v].wrote.value.storedAt <= req[w].wrote.value.storedAt

\* C15, witness: both requests missed, both have put their manifest, at
\* different times, and both are answered.
C15_BothRegenerated ==
    /\ Regenerated = Racers
    /\ Writers = Racers
    /\ req[1].wrote.value.storedAt # req[2].wrote.value.storedAt
    /\ req[1].wrote.value.metadata # req[2].wrote.value.metadata

----------------------------------------------------------------------------
(* Properties of the nested references (SpecHosts) *)

\* the line is a reference to a nested manifest that is no absolute URL
IsRelativeNested(line) == Len(line) = 1 /\ line[1].t = "m3u8"

\* the line is a reference to a nested manifest at an absolute URL
IsAbsoluteNested(line) == Len(line) = 2 /\ line[1].t = "abs" /\ line[2].t = "m3u8"

\* C21: in every manifest answered 200, from a fresh rewrite or from the
\* cache, a reference to a nested manifest that is not absolute in the source
\* is the absolute URL made of the origin of the request being answered, its
\* base path and the reference, and a reference that is absolute in the
\* source is unchanged, also when the entry was made for a request that came
\* through another host.
C21_NestedRootedAtRequestingHost ==
    \A r \in AnsweredM3u8 :
        req[r].resp.status = 200
            => LET body == req[r].resp.body.lines
               IN  \A i \in 1..Len(manifestSrc) :
                     /\ IsRelativeNested(manifestSrc[i])
                           => body[BodyLine(i)] =
                                <<[t |-> "proxy", origin |-> req[r].input.origin,
                                   path |-> getBasePath(req[r].input.path)]>>
                                \o manifestSrc[i]
                     /\ IsAbsoluteNested(manifestSrc[i])
                           => body[BodyLine(i)] = manifestSrc[i]

----------------------------------------------------------------------------
(* Properties of the expiration of a served manifest (SpecManifest) *)

\* the lines of a manifest that are an expiration comment
ExpirationComments(m3u8) ==
    {i \in 1..Len(m3u8) : \E j \in 1..Len(m3u8[i]) : m3u8[i][j].t = "expires"}

\* C22: after any sequence of misses, hits and invalidations, a manifest
\* answered 200 has the content type application/x-mpegURL, the first line
\* of the source as its first line, the expiration comment as its second
\* line, and no other expiration comment.
C22_OneExpirationCommentOnSecondLine ==
    \A r \in AnsweredM3u8 :
        req[r].resp.status = 200
            => LET body == req[r].resp.body.lines
               IN  /\ req[r].resp.headers.contentType = "application/x-mpegURL"
                   /\ body[1] = manifestSrc[1]
                   /\ ExpirationComments(body) = {2}
                   /\ Len(body[2]) = 1
                   /\ Len(body) = Len(manifestSrc) + 1

\* C22, witness: a manifest is answered from an entry that was stored some
\* time after the deployment and some time before the request.
C22_HitOnRegeneratedEntry ==
    \E r \in AnsweredM3u8 :
        /\ req[r].hit /\ req[r].resp.status = 200
        /\ req[r].cacheKey \in DOMAIN store
        /\ store[req[r].cacheKey].storedAt < req[r].at
        /\ store[req[r].cacheKey].storedAt > StartTime

\* C23: a request answered from the cache announces as Expires the absolute
\* expiration held in the metadata of the entry, and as max-age the time
\* from the answer to that expiration: successive hits on one entry announce
\* the same Expires and a max-age that does not grow.
C23_HitAnnouncesStoredExpiration ==
    [][\A r \in Requests :
          req'[r].hit /\ req'[r] # req[r]
              => LET entry == store[req'[r].cacheKey]
                     headers == req'[r].resp.headers
                 IN  /\ req'[r].resp.status = 200
                     /\ headers.expires = entry.metadata.expiration
                     /\ headers.cacheControl.maxAge =
                            Num(entry.metadata.expiration.v - now)]_vars

\* C23, witness: a request is answered from an entry stored some time
\* before it arrived, whose expiration is not the one a put at the arrival
\* would have.
C23_HitSomeTimeAfterStore ==
    \E r \in AnsweredM3u8 :
        /\ req[r].hit
        /\ store[req[r].cacheKey].storedAt < req[r].at
        /\ store[req[r].cacheKey].metadata.expiration.v
               < req[r].at + store[req[r].cacheKey].ttl

----------------------------------------------------------------------------
(* Properties of the metadata of an entry (SpecExpiry) *)

\* the date of the expiration comment of a manifest
CommentDate(m3u8) == m3u8[2][1].date

\* C24: the metadata of a manifest entry hold as expiration the time the
\* handler issues the put plus the time to live, which is not later than
\* that time plus the signature lifetime of the backend less the margin, nor
\* than the time the store takes the put plus the time to live, and is never
\* earlier than the date of the entry's expiration comment, which the miss
\* that stored it announces as Expires.
C24_MetadataExpirationIsPutTimePlusTtl ==
    [][\A r \in Requests :
          /\ req'[r].pc = "put" /\ req[r].pc # "put" /\ KvPutAccepts(req'[r].ttl)
                => /\ req'[r].metaExp = Num(now + req'[r].ttl.v)
                   /\ req'[r].metaExp.v
                         <= now + SignExpiration(clients[req'[r].cl]) - EXPIRATION_MARGIN
                   /\ req'[r].metaExp.v >= CommentDate(req'[r].m3u8).v
          /\ req'[r].puts = req[r].puts + 1
                => LET entry == store'[req[r].cacheKey]
                   IN  /\ entry.metadata.expiration = req[r].metaExp
                       /\ entry.storedAt = now /\ entry.ttl = req[r].ttl.v
                       /\ entry.metadata.expiration.v <= entry.storedAt + entry.ttl
                       /\ CommentDate(entry.value) = req'[r].resp.headers.expires
                       /\ entry.metadata.expiration.v >= CommentDate(entry.value).v]_vars

\* C24, witness: an entry is stored whose metadata expire later than its
\* expiration comment says, the request having taken some time.
C24_MetadataLaterThanComment ==
    \E k \in ManifestKeys(store) :
        store[k].metadata.expiration.v > CommentDate(store[k].value).v

\* the lifetime a declared expiration stands for: its value when it is a
\* positive integer, an hour otherwise
EffectiveLifetime(expiration) ==
    IF expiration = <<"3", "6", "0", "0">> THEN 3600
    ELSE IF expiration = <<"2", "0", "0">> THEN 200
    ELSE IF expiration = <<"5", "0">> THEN 50
    ELSE 3600

\* C25: whatever the declared expiration, a manifest request signs its URLs
\* for the effective lifetime L, and the time to live it computes for the
\* store is L - 100, a positive integer.
C25_SameLifetimeForSigningAndCaching ==
    \A r \in Requests :
        req[r].handler = "m3u8" /\ req[r].pc # "done"
            => LET L == EffectiveLifetime(DeclaredExpiration)
               IN  /\ \A i \in 1..Len(req[r].promises) :
                         req[r].promises[i].state = "ok"
                             => req[r].promises[i].url.lifetime = L
                   /\ req[r].ttl = Num(L - 100)
                   /\ req[r].ttl.v > 0

----------------------------------------------------------------------------
(* Properties of refused invalidations and of failures (Spec) *)

\* C26: a flush request whose key is missing or is not the code of the day,
\* and a manifest request that presents a clear-cache code that is not the
\* code of the day, are answered 400 or 403, with the same response whatever
\* the code presented.
C26_FailedInvalidationRefused ==
    \A r \in Ended :
        (req[r].handler = "flush"
         \/ (req[r].handler = "m3u8" /\ req[r].input.clearCache # NoCode))
        /\ ~ProvedBy(req[r])
            => /\ req[r].resp.status \in {400, 403}
               /\ req[r].resp.body = Text("Invalid clear code")

----------------------------------------------------------------------------
(* Properties of an invalidation and the requests after it (SpecLater) *)

\* C27: once a manifest request with a valid proof is answered, a later
\* request for the same path, whichever backend serves it, is not answered
\* from a cache entry that was stored before the invalidating request arrived.
C27_NoEntryOlderThanInvalidation ==
    req[1].pc = "done" /\ req[1].proof /\ req[2].pc = "done" /\ req[2].hit
        => ~(store[req[2].cacheKey].storedAt < req[1].at)

----------------------------------------------------------------------------
(* Properties of an invalidation beside a miss (SpecInFlight) *)

\* the manifest a rewritten manifest was made from: the comment of the
\* second line is dropped, a signed URL is the segment it names, and the
\* prefix put before a nested manifest is dropped
Original(m3u8) ==
    LET lines == <<m3u8[1]>> \o SubSeq(m3u8, 3, Len(m3u8))
        Kept(tok) == tok.t # "proxy"
        Back(tok) == IF tok.t = "signed" THEN [t |-> "seg", name |-> tok.key[Len(tok.key)]]
                     ELSE tok
    IN  [i \in 1..Len(lines) |->
            LET line == SelectSeq(lines[i], Kept)
            IN  [j \in 1..Len(line) |-> Back(line[j])]]

\* C28: the manifest was replaced on the backend before the second client
\* asked, with a valid code, for the manifest or for a flush; once that
\* request and the request for the manifest that was in the handler are both
\* answered, the store holds no entry made from the manifest as it was
\* before the replacement.
C28_InvalidationNotUndone ==
    req[1].pc = "done" /\ req[2].pc = "done" /\ ProvedBy(req[2])
        => \A k \in DOMAIN store : Original(store[k].value) # MainManifest

----------------------------------------------------------------------------
(* Properties of the failures of a miss (SpecManifest) *)

\* the request read a miss and then the backend call failed, the answer had
\* no body or an empty one, or a signing call failed
FailedMiss(rq) ==
    /\ rq.handler = "m3u8" /\ rq.fetches = 1
    /\ \/ rq.fetched \in {"error", "nobody"}
       \/ rq.fetched = "ok" /\ manifestSrc = EmptyM3u8
       \/ rq.signFailed

\* C29: from its cache lookup until its signing calls have settled a request
\* leaves the store as it is, and the step that ends a request that met a
\* failure of a miss is such a step: the request is answered 500 and has
\* put nothing, so the entry of its key is what it was before the lookup.
C29_FailedMissAnswers500AndWritesNothing ==
    [][\A r \in Requests :
          /\ req[r].pc \in {"lookup", "fetch", "sign"} => store' = store
          /\ req'[r] # req[r] /\ req'[r].pc = "done" /\ FailedMiss(req'[r])
                => /\ req[r].pc \in {"fetch", "sign"}
                   /\ req'[r].resp.status = 500
                   /\ req'[r].puts = 0 /\ req'[r].wrote = NoValue]_vars

\* C29, witness: a request that found the entry of its key expired met a
\* failure and is answered, the expired entry still in the store.
C29_FailedOverExpiredEntry ==
    \E r \in Requests :
        /\ req[r].pc = "done" /\ FailedMiss(req[r])
        /\ req[r].cacheKey \in DOMAIN store
        /\ ~Live(store, now, req[r].cacheKey)

----------------------------------------------------------------------------
(* Properties of the 500 responses (Spec) *)

\* C30: every response with status 500 of the manifest handler and of the
\* poster handler has the same body, the fixed text, whatever the error was.
C30_Every500HasTheFixedBody ==
    \A r \in Ended :
        req[r].handler \in {"m3u8", "poster"} /\ req[r].resp.status = 500
            => req[r].resp.body = Text("An error occurred")

----------------------------------------------------------------------------
(* Properties of the 304 of the poster handler (SpecPoster) *)

\* the step answers a poster request: with 304 only if the header equals the
\* ETag the store holds under the key of the request, after one read, no
\* fetch, no write and no delete, the store left as it is, with no body and
\* the ETag of the header; a request whose header is not the stored ETag is
\* answered 200 with the bytes (whenFetched: if the backend gave them, and
\* 500 if it did not)
PosterAnswered(whenFetched) ==
    \A r \in Requests :
        req'[r] # req[r] /\ req'[r].pc = "done" /\ req'[r].handler = "poster"
            => LET rq == req'[r]
                   ifNoneMatch == rq.input.ifNoneMatch
                   k == rq.cacheKey
                   matches == Live(store, now, k) /\ store[k].value = ifNoneMatch
               IN  /\ rq.resp.status = 304
                        => /\ matches
                           /\ rq.reads = 1 /\ rq.fetches = 0
                           /\ rq.puts = 0 /\ rq.deletes = 0
                           /\ store' = store
                           /\ rq.resp.body = Null
                           /\ rq.resp.headers.etag = ifNoneMatch
                   /\ ifNoneMatch # NoEtag /\ ~matches
                        => /\ rq.fetches = 1
                           /\ IF whenFetched /\ rq.fetched # "ok"
                              THEN rq.resp.status = 500
                              ELSE /\ rq.resp.status = 200
                                   /\ rq.resp.body.kind = "bytes"

\* C31, as stated: a 304 is given only on a match, after one read and
\* nothing else, without a body; every request whose If-None-Match is not the
\* stored ETag gets the 200 response.
C31_NotModifiedOnlyOnMatchElse200 == [][PosterAnswered(FALSE)]_vars

\* C31, amended: a 304 is given only on a match, after one read and nothing
\* else, without a body; a request whose If-None-Match is not the stored
\* ETag fetches the poster, and gets the 200 response if the backend gave the
\* poster and 500 if it did not.
C31_NotModifiedOnlyOnMatchElseFetched == [][PosterAnswered(TRUE)]_vars

\* C31, witness: with two backends, a request is answered 304 while the
\* store holds an ETag for each of them.
C31_NotModifiedAmongTwoEtags ==
    \E r \in AnsweredPoster :
        /\ req[r].resp.status = 304
        /\ Cardinality(DOMAIN store) = 2

----------------------------------------------------------------------------
(* Properties of a hit (SpecManifest) *)

\* C32: a manifest request without a valid proof that reads the cache while
\* the store holds a live entry under its key is answered by that step, 200
\* with the stored value as body, after one read, no fetch, no signing call,
\* no put and no delete; that step and the arrival of the request leave the
\* store as it is.
C32_HitLeavesStoreUnchanged ==
    [][\A r \in Requests :
          /\ req'[r] # req[r] /\ req'[r].pc = "lookup" /\ ~ProvedBy(req'[r])
                => store' = store
          /\ req[r].pc = "lookup" /\ req'[r] # req[r] /\ ~ProvedBy(req[r])
             /\ Live(store, now, req[r].cacheKey)
                => /\ req'[r].pc = "done"
                   /\ req'[r].resp.status = 200
                   /\ req'[r].resp.body = M3u8Body(store[req[r].cacheKey].value)
                   /\ req'[r].reads = 1
                   /\ req'[r].fetches = 0 /\ req'[r].signCalls = 0
                   /\ req'[r].puts = 0 /\ req'[r].deletes = 0
                   /\ store' = store]_vars

\* C32, witness: a request without a code is answered from an entry that
\* holds signed URLs and was stored before the request arrived.
C32_HitOnSignedManifest ==
    \E r \in AnsweredM3u8 :
        /\ req[r].hit /\ req[r].input.clearCache = NoCode
        /\ SignedUrlsOf(store[req[r].cacheKey].value) # {}
        /\ store[req[r].cacheKey].storedAt < req[r].at

----------------------------------------------------------------------------
(* Properties of the end of a flush (SpecFlushing) *)

\* a step of the flush deletes a key only in its delete loop, a key it has
\* listed and has not deleted yet, and once it deletes it lists no more
FlushStep ==
    req'[2] # req[2] /\ req[2].pc \in {"list", "delete"}
        => /\ req'[2].deletes > req[2].deletes
                => /\ req[2].pc = "delete"
                   /\ req'[2].deletes = req[2].deletes + 1
                   /\ \E k \in req[2].keys :
                         /\ req'[2].keys = req[2].keys \ {k} \/ req'[2].pc = "done"
                         /\ store' = KvDelete(store, k)
           /\ req[2].pc = "delete" => req'[2].pc \in {"delete", "done"}
           /\ req[2].pc = "list" /\ req'[2].pc = "list"
                => req[2].cursor \subseteq req'[2].cursor /\ req'[2].cursor # req[2].cursor

\* C33: a flush with a valid code ends, while the other requests keep
\* putting entries: each of its list calls but the last lists keys not
\* listed before, each key of its delete loop is deleted once, and it is
\* answered 200 'Cache cleared'.
C33_FlushTerminates ==
    /\ [][FlushStep]_vars
    /\ (req[2].pc \in {"list", "delete"})
          ~> (req[2].pc = "done" /\ req[2].resp = CacheCleared)

\* C33, witness: a flush that listed two pages is answered while the store
\* holds entries again.
C33_FlushedOverTwoPages ==
    /\ req[2].pc = "done" /\ req[2].resp = CacheCleared
    /\ req[2].deletes > 0
    /\ Cardinality(DOMAIN store) >= 2

----------------------------------------------------------------------------
(* Properties of the order of validation and invalidation (SpecRoutes) *)

\* the request is one the manifest handler rejects: no backend to serve it,
\* an empty bucket, or a key that is no manifest
Rejected(rq) ==
    IF rq.cl = 0 THEN TRUE
    ELSE \/ RequestedObject(rq).bucket = <<>>
         \/ ~validKey(RequestedObject(rq).key)

\* C34: a manifest request that is rejected makes no operation on the
\* store, no delete in particular, also with a valid code; a delete is made
\* only for a request with a valid code that passes every validation, and
\* before the store is read.
C34_ValidatedBeforeTheStoreIsTouched ==
    \A r \in Requests :
        req[r].handler = "m3u8"
            => /\ Rejected(req[r])
                    => req[r].pc \notin {"clear", "lookup"}
                       /\ req[r].deletes = 0 /\ req[r].reads = 0 /\ req[r].puts = 0
               /\ req[r].deletes > 0 => ProvedBy(req[r])
               /\ req[r].pc = "clear" => req[r].reads = 0 /\ req[r].deletes = 0

====
